---------------------------- MODULE Spec2Model ----------------------------
(***************************************************************************)
(* Model of TelnetPseudoterminal (src/src/index.ts): the option            *)
(* negotiation policy, the subnegotiation replies, the window-size         *)
(* synchronisation and the host-facing calls.                              *)
(*                                                                         *)
(* The TelnetSocket of the telnet-stream package is the boundary: the      *)
(* model records every call the class makes on it (writeDo, writeDont,     *)
(* writeWill, writeWont, writeSub, write) as one item of `sent`, and the    *)
(* events the socket raises ('do', 'dont', 'will', 'wont', 'sub') are the   *)
(* inputs.  `sent` holds the calls made by the last operation only, so a    *)
(* statement about "the output of one event" is a state predicate.         *)
(***************************************************************************)
EXTENDS Integers, Sequences, FiniteSets

VARIABLES
    socket,        \* _socket: "none" (never opened), "open", "ended" (after close())
    dimensions,    \* _dimensions
    serverNawsOk,  \* _serverNawsOk
    sent,          \* calls made on the socket by the last operation, in order
    error,         \* the error the last operation threw, NoError if it returned
    last,          \* the last operation, its arguments and the state it started in
    wire,          \* the exchange with a peer: commands in flight in both directions
    codec          \* the byte stream codec run on one encoded data sequence

vars == <<socket, dimensions, serverNawsOk, sent, error, last, wire, codec>>

-----------------------------------------------------------------------------
(* Program constants *)

ECHO == 1
SUPPRESS_GO_AHEAD == 3
TERMINAL_TYPE == 24
NAWS == 31
NEW_ENVIRON == 39
IS == 0
SEND == 1

-----------------------------------------------------------------------------
(* Bounds and input domains *)

MaxInputLen == 2    \* longest string given to handleInput
MaxBufferLen == 2   \* longest subnegotiation payload received

\* Option codes received: the five named ones and three the class does not know.
OptionCodes == {0, ECHO, SUPPRESS_GO_AHEAD, TERMINAL_TYPE, NAWS, NEW_ENVIRON, 40, 255}

\* Payload bytes received in a subnegotiation.
BufferBytes == {IS, SEND, 255}

\* Characters typed: carriage return, line feed, a printable character.
Chars == {"CR", "LF", "a"}

\* Column and row counts reported by the host (all within 0..32767).
ColumnValues == {0, 80, 255, 256, 32767}
RowValues == {0, 24, 255, 32767}

SeqsUpTo(S, n) == UNION {[1..k -> S] : k \in 0..n}

Buffers == SeqsUpTo(BufferBytes, MaxBufferLen)
Inputs == SeqsUpTo(Chars, MaxInputLen)

-----------------------------------------------------------------------------
(* Values *)

\* vscode.TerminalDimensions | undefined
Undefined == [defined |-> FALSE, columns |-> 0, rows |-> 0]
Dim(c, r) == [defined |-> TRUE, columns |-> c, rows |-> r]
Sizes == {Dim(c, r) : c \in ColumnValues, r \in RowValues}

NoError == "none"
NotReady == "Terminal not ready"
RangeError == "ERR_OUT_OF_RANGE"

\* One call on the TelnetSocket.
Item(kind, option, buffer, data) ==
    [kind |-> kind, option |-> option, buffer |-> buffer, data |-> data]
writeDo(option) == Item("DO", option, <<>>, <<>>)
writeDont(option) == Item("DONT", option, <<>>, <<>>)
writeWill(option) == Item("WILL", option, <<>>, <<>>)
writeWont(option) == Item("WONT", option, <<>>, <<>>)
socketWriteSub(option, buffer) == Item("SUB", option, buffer, <<>>)
write(data) == Item("DATA", -1, <<>>, data)


\* No exchange with a peer is being followed.
WireIdle == [toPeer |-> <<>>, toClient |-> <<>>, peerWill |-> {}, peerDo |-> {}]

\* The codec is not running.
CodecIdle == [orig |-> <<>>, rest |-> <<>>, chunks |-> 0, state |-> "normal",
              pending |-> <<>>, chunk |-> <<>>, data |-> <<>>,
              dataEvents |-> 0, otherEvents |-> 0]

-----------------------------------------------------------------------------
(* Pure parts of the class: each returns the calls it makes on the socket   *)
(* (and the fields it assigns) from the fields it reads.                    *)

\* Mutant of writeInt16BE: the low byte first.
writeInt16BE_LittleEndian(value) ==
    IF value < -32768 \/ value > 32767
    THEN [ok |-> FALSE, bytes |-> <<>>]
    ELSE LET u == IF value < 0 THEN value + 65536 ELSE value
         IN  [ok |-> TRUE, bytes |-> <<u % 256, (u \div 256) % 256>>]

\* Mutant of get_socket: the getter returns the field without the check.
get_socket_Unchecked(s) == NoError

\* get socket(): throws 'Terminal not ready' while _socket is unset.
get_socket(s) == IF s = "none" THEN NotReady ELSE NoError

\* Buffer.writeInt16BE(value, offset): the two bytes written, high byte
\* first, two's complement; a value outside -32768..32767 throws.
writeInt16BE(value) ==
    IF value < -32768 \/ value > 32767
    THEN [ok |-> FALSE, bytes |-> <<>>]
    ELSE LET u == IF value < 0 THEN value + 65536 ELSE value
         IN  [ok |-> TRUE, bytes |-> <<(u \div 256) % 256, u % 256>>]

\* sendWindowSize(): reads serverNawsOk and dimensions.
sendWindowSize(naws, dims) ==
    IF ~naws \/ ~dims.defined
    THEN [sent |-> <<>>, error |-> NoError]
    ELSE LET c == writeInt16BE(dims.columns)
             r == writeInt16BE(dims.rows)
         IN  IF c.ok /\ r.ok
             THEN [sent |-> <<socketWriteSub(NAWS, c.bytes \o r.bytes)>>,
                   error |-> NoError]
             ELSE [sent |-> <<>>, error |-> RangeError]

\* Mutant of set_dimensions: a size equal to the stored one is not sent again.
set_dimensions_SkipSame(value, naws) ==
    IF value = dimensions
    THEN [dims |-> value, sent |-> <<>>, error |-> NoError]
    ELSE [dims |-> value, sent |-> sendWindowSize(naws, value).sent,
          error |-> sendWindowSize(naws, value).error]

\* set dimensions(value): stores the value, then sendWindowSize().
set_dimensions(value, naws) ==
    LET w == sendWindowSize(naws, value)
    IN  [dims |-> value, sent |-> w.sent, error |-> w.error]

\* Mutant of set_serverNawsOk: the window size is sent before WILL NAWS.
set_serverNawsOk_SizeFirst(value, naws, dims) ==
    IF value = naws
    THEN [naws |-> naws, sent |-> <<>>, error |-> NoError]
    ELSE IF value
         THEN [naws |-> value,
               sent |-> sendWindowSize(value, dims).sent \o <<writeWill(NAWS)>>,
               error |-> sendWindowSize(value, dims).error]
         ELSE [naws |-> value, sent |-> <<writeWont(NAWS)>>, error |-> NoError]

\* set serverNawsOk(value): nothing when the flag already has the value;
\* else stores it and writes WILL NAWS and the window size, or WONT NAWS.
set_serverNawsOk(value, naws, dims) ==
    IF value = naws
    THEN [naws |-> naws, sent |-> <<>>, error |-> NoError]
    ELSE IF value
         THEN LET w == sendWindowSize(value, dims)
              IN  [naws |-> value, sent |-> <<writeWill(NAWS)>> \o w.sent,
                   error |-> w.error]
         ELSE [naws |-> value, sent |-> <<writeWont(NAWS)>>, error |-> NoError]

\* Mutant of handleDo: DO TERMINAL-TYPE also marks NAWS as accepted.
handleDo_TerminalTypeSetsFlag(option, naws, dims) ==
    IF option = NAWS
    THEN set_serverNawsOk(TRUE, naws, dims)
    ELSE IF option \in {TERMINAL_TYPE, NEW_ENVIRON}
         THEN [naws |-> TRUE, sent |-> <<writeWill(option)>>, error |-> NoError]
         ELSE [naws |-> naws, sent |-> <<writeWont(option)>>, error |-> NoError]

\* Mutant of handleDo: the default branch is missing, every option is confirmed.
handleDo_ConfirmsAll(option, naws, dims) ==
    IF option = NAWS
    THEN set_serverNawsOk(TRUE, naws, dims)
    ELSE [naws |-> naws, sent |-> <<writeWill(option)>>, error |-> NoError]

handleDo(option, naws, dims) ==
    IF option = NAWS
    THEN set_serverNawsOk(TRUE, naws, dims)
    ELSE IF option \in {TERMINAL_TYPE, NEW_ENVIRON}
         THEN [naws |-> naws, sent |-> <<writeWill(option)>>, error |-> NoError]
         ELSE [naws |-> naws, sent |-> <<writeWont(option)>>, error |-> NoError]

\* Mutant of handleDont: NAWS is acknowledged like any option, the flag is kept.
handleDont_KeepsNaws(option, naws, dims) ==
    [naws |-> naws, sent |-> <<writeWont(option)>>, error |-> NoError]

handleDont(option, naws, dims) ==
    IF option = NAWS
    THEN set_serverNawsOk(FALSE, naws, dims)
    ELSE [naws |-> naws, sent |-> <<writeWont(option)>>, error |-> NoError]

\* Mutant of handleWill: the default branch is missing, every option is requested.
handleWill_RequestsAll(option) == <<writeDo(option)>>

handleWill(option) ==
    IF option \in {ECHO, SUPPRESS_GO_AHEAD}
    THEN <<writeDo(option)>>
    ELSE <<writeDont(option)>>

\* Mutant of handleWont: ECHO is not requested again.
handleWont_AlwaysDont(option) == <<writeDont(option)>>

handleWont(option) ==
    IF option = ECHO
    THEN <<writeDo(option)>>
    ELSE <<writeDont(option)>>

\* Buffer.from(string) for the characters the class writes (ASCII).
CharCode(c) ==
    CASE c = "X" -> 88
      [] c = "T" -> 84
      [] c = "E" -> 69
      [] c = "R" -> 82
      [] c = "M" -> 77

RECURSIVE BufferFromString(_)
BufferFromString(s) ==
    IF s = <<>> THEN <<>> ELSE <<CharCode(Head(s))>> \o BufferFromString(Tail(s))

\* The arguments of writeSub: a number or a string.
Num(n) == [type |-> "number", n |-> n, s |-> <<>>]
Str(s) == [type |-> "string", n |-> 0, s |-> s]

RECURSIVE BufferConcat(_)
BufferConcat(data) ==
    IF data = <<>> THEN <<>>
    ELSE LET d == Head(data)
         IN  (IF d.type = "number" THEN <<d.n>> ELSE BufferFromString(d.s))
             \o BufferConcat(Tail(data))

writeSub(option, data) == socketWriteSub(option, BufferConcat(data))

sendEnvironment == writeSub(NEW_ENVIRON, <<Num(IS)>>)

\* Mutant of sendTerminalType: the IS byte is missing.
sendTerminalType_NoIS == writeSub(TERMINAL_TYPE, <<Str(<<"X", "T", "E", "R", "M">>)>>)

sendTerminalType == writeSub(TERMINAL_TYPE, <<Num(IS), Str(<<"X", "T", "E", "R", "M">>)>>)

\* buffer[0] of an empty Buffer is undefined, which is not SEND.
FirstIsSend(buffer) == Len(buffer) > 0 /\ buffer[1] = SEND

\* Mutant of handleSubnegotiation: the first payload byte is not looked at.
handleSubnegotiation_NoSendCheck(option, buffer) ==
    IF option = TERMINAL_TYPE
    THEN <<sendTerminalType>>
    ELSE IF option = NEW_ENVIRON THEN <<sendEnvironment>> ELSE <<>>

handleSubnegotiation(option, buffer) ==
    IF option = TERMINAL_TYPE
    THEN IF FirstIsSend(buffer) THEN <<sendTerminalType>> ELSE <<>>
    ELSE IF option = NEW_ENVIRON
         THEN IF FirstIsSend(buffer) THEN <<sendEnvironment>> ELSE <<>>
         ELSE <<>>

\* Mutant of translateInput: every CR of the string becomes CR LF.
RECURSIVE translateInput_EveryCR(_)
translateInput_EveryCR(data) ==
    IF data = <<>> THEN <<>>
    ELSE (IF Head(data) = "CR" THEN <<"CR", "LF">> ELSE <<Head(data)>>)
         \o translateInput_EveryCR(Tail(data))

translateInput(data) ==
    IF data = <<"CR">> THEN <<"CR", "LF">> ELSE data

-----------------------------------------------------------------------------
(* State machine *)

Op(op, option, buffer, data, dims) ==
    [op |-> op, option |-> option, buffer |-> buffer, data |-> data, dims |-> dims,
     preSocket |-> socket, preDims |-> dimensions, preNaws |-> serverNawsOk]

Init ==
    /\ socket = "none"
    /\ dimensions = Undefined
    /\ serverNawsOk = FALSE
    /\ sent = <<>>
    /\ error = NoError
    /\ last = [op |-> "new", option |-> -1, buffer |-> <<>>, data |-> <<>>,
               dims |-> Undefined, preSocket |-> "none", preDims |-> Undefined,
               preNaws |-> FALSE]
    /\ wire = WireIdle
    /\ codec = CodecIdle

\* open(initialDimensions): a new socket, the initial size stored in the
\* field directly, the handlers registered and the four offers written.
open ==
    \E d \in Sizes \cup {Undefined} :
        /\ socket \in {"none", "ended"}
        /\ socket' = "open"
        /\ dimensions' = d
        /\ sent' = <<writeDo(ECHO), writeDo(SUPPRESS_GO_AHEAD),
                     writeWill(SUPPRESS_GO_AHEAD), writeWill(NAWS)>>
        /\ error' = NoError
        /\ last' = Op("open", -1, <<>>, <<>>, d)
        /\ UNCHANGED <<serverNawsOk, wire, codec>>

\* close(): ends the socket; the socket getter throws before open().
\* What a call on a socket that was already ended does is decided by the
\* telnet-stream package, not by this class: close, handleInput and
\* setDimensions are taken before open() and while the socket is open, and
\* the socket's events are delivered while it is open.
close ==
    /\ socket \in {"none", "open"}
    /\ error' = get_socket(socket)
    /\ socket' = IF get_socket(socket) = NoError THEN "ended" ELSE socket
    /\ sent' = <<>>
    /\ last' = Op("close", -1, <<>>, <<>>, Undefined)
    /\ UNCHANGED <<dimensions, serverNawsOk, wire, codec>>

\* handleInput(data): the socket getter throws before open().
handleInput ==
    \E data \in Inputs :
        /\ socket \in {"none", "open"}
        /\ error' = get_socket(socket)
        /\ sent' = IF get_socket(socket) = NoError
                   THEN <<write(translateInput(data))>>
                   ELSE <<>>
        /\ last' = Op("handleInput", -1, <<>>, data, Undefined)
        /\ UNCHANGED <<socket, dimensions, serverNawsOk, wire, codec>>

\* setDimensions(dimensions)
setDimensions ==
    \E d \in Sizes :
        /\ socket \in {"none", "open"}
        /\ LET r == set_dimensions(d, serverNawsOk)
           IN  /\ dimensions' = r.dims
               /\ sent' = r.sent
               /\ error' = r.error
        /\ last' = Op("setDimensions", -1, <<>>, <<>>, d)
        /\ UNCHANGED <<socket, serverNawsOk, wire, codec>>

\* socket.on('do', ...)
onDo ==
    \E option \in OptionCodes :
        /\ socket = "open"
        /\ LET r == handleDo(option, serverNawsOk, dimensions)
           IN  /\ serverNawsOk' = r.naws
               /\ sent' = r.sent
               /\ error' = r.error
        /\ last' = Op("do", option, <<>>, <<>>, Undefined)
        /\ UNCHANGED <<socket, dimensions, wire, codec>>

\* socket.on('dont', ...)
onDont ==
    \E option \in OptionCodes :
        /\ socket = "open"
        /\ LET r == handleDont(option, serverNawsOk, dimensions)
           IN  /\ serverNawsOk' = r.naws
               /\ sent' = r.sent
               /\ error' = r.error
        /\ last' = Op("dont", option, <<>>, <<>>, Undefined)
        /\ UNCHANGED <<socket, dimensions, wire, codec>>

\* socket.on('will', ...)
onWill ==
    \E option \in OptionCodes :
        /\ socket = "open"
        /\ sent' = handleWill(option)
        /\ error' = NoError
        /\ last' = Op("will", option, <<>>, <<>>, Undefined)
        /\ UNCHANGED <<socket, dimensions, serverNawsOk, wire, codec>>

\* socket.on('wont', ...)
onWont ==
    \E option \in OptionCodes :
        /\ socket = "open"
        /\ sent' = handleWont(option)
        /\ error' = NoError
        /\ last' = Op("wont", option, <<>>, <<>>, Undefined)
        /\ UNCHANGED <<socket, dimensions, serverNawsOk, wire, codec>>

\* socket.on('sub', ...)
onSub ==
    \E option \in OptionCodes, buffer \in Buffers :
        /\ socket = "open"
        /\ sent' = handleSubnegotiation(option, buffer)
        /\ error' = NoError
        /\ last' = Op("sub", option, buffer, <<>>, Undefined)
        /\ UNCHANGED <<socket, dimensions, serverNawsOk, wire, codec>>

Next ==
    \/ open
    \/ close
    \/ handleInput
    \/ setDimensions
    \/ onDo
    \/ onDont
    \/ onWill
    \/ onWont
    \/ onSub

Spec == Init /\ [][Next]_vars

TypeOK ==
    /\ socket \in {"none", "open", "ended"}
    /\ dimensions \in Sizes \cup {Undefined}
    /\ serverNawsOk \in BOOLEAN
    /\ error \in {NoError, NotReady, RangeError}
    /\ Len(sent) <= 4

-----------------------------------------------------------------------------
(* Helpers for stating the properties *)

\* The negotiation commands (not subnegotiations, not data) among the calls.
Commands(items) == SelectSeq(items, LAMBDA i : i.kind \in {"DO", "DONT", "WILL", "WONT"})

\* The fields of the terminal are as the last operation found them.
FieldsUnchanged == serverNawsOk = last.preNaws /\ dimensions = last.preDims

\* A size as RFC 1073 puts it on the wire, written out byte by byte.
WireSize(d) ==
    <<d.columns \div 256, d.columns % 256, d.rows \div 256, d.rows % 256>>

-----------------------------------------------------------------------------
(* C1: DO <opt> for an option other than NAWS, TERMINAL-TYPE, NEW-ENVIRON is *)
(* answered with exactly WONT <opt>, and WILL <opt> for an option other     *)
(* than ECHO, SUPPRESS-GO-AHEAD with exactly DONT <opt>; nothing else is    *)
(* emitted and the NAWS-accepted flag is unchanged.                         *)
C1_RefusesUnlistedOptions ==
    /\ (last.op = "do" /\ last.option \notin {NAWS, TERMINAL_TYPE, NEW_ENVIRON})
          => /\ sent = <<[kind |-> "WONT", option |-> last.option,
                          buffer |-> <<>>, data |-> <<>>]>>
             /\ error = NoError
             /\ FieldsUnchanged
    /\ (last.op = "will" /\ last.option \notin {ECHO, SUPPRESS_GO_AHEAD})
          => /\ sent = <<[kind |-> "DONT", option |-> last.option,
                          buffer |-> <<>>, data |-> <<>>]>>
             /\ error = NoError
             /\ FieldsUnchanged

\* DO of an unknown option received while NAWS is accepted: refused, flag kept.
C1_Witness ==
    /\ last.op = "do" /\ last.option = 255 /\ last.preNaws
    /\ Len(sent) = 1 /\ sent[1].kind = "WONT" /\ sent[1].option = 255
    /\ serverNawsOk

(* C2: DO NAWS received while NAWS is not accepted and a size is known       *)
(* emits exactly WILL NAWS followed by one NAWS subnegotiation carrying     *)
(* that size; the subnegotiation never precedes the WILL NAWS.              *)
C2_WillNawsThenSize ==
    (last.op = "do" /\ last.option = NAWS /\ ~last.preNaws /\ last.preDims.defined)
       => /\ Len(sent) = 2
          /\ sent[1].kind = "WILL" /\ sent[1].option = NAWS
          /\ sent[2].kind = "SUB" /\ sent[2].option = NAWS
          /\ sent[2].buffer = WireSize(last.preDims)
          /\ error = NoError

\* DO NAWS with the size 80x24 known and NAWS not accepted before.
C2_Witness ==
    /\ last.op = "do" /\ last.option = NAWS /\ ~last.preNaws
    /\ last.preDims = Dim(80, 24)
    /\ Len(sent) = 2 /\ sent[2].kind = "SUB"

(* C3: every NAWS subnegotiation emitted carries exactly 4 bytes, the        *)
(* stored columns then the stored rows, each a big-endian 16-bit field,     *)
(* for the size stored when it is emitted (80x24 gives 0, 80, 0, 24).       *)
C3_NawsPayload ==
    \A i \in 1..Len(sent) :
        (sent[i].kind = "SUB" /\ sent[i].option = NAWS)
           => /\ dimensions.defined
              /\ Len(sent[i].buffer) = 4
              /\ \A k \in 1..4 : sent[i].buffer[k] \in 0..255
              /\ sent[i].buffer[1] * 256 + sent[i].buffer[2] = dimensions.columns
              /\ sent[i].buffer[3] * 256 + sent[i].buffer[4] = dimensions.rows
              /\ (dimensions = Dim(80, 24) => sent[i].buffer = <<0, 80, 0, 24>>)

\* A NAWS subnegotiation whose two fields differ in their high and low bytes.
C3_Witness ==
    /\ dimensions = Dim(256, 255)
    /\ \E i \in 1..Len(sent) :
          sent[i].kind = "SUB" /\ sent[i].option = NAWS
          /\ sent[i].buffer = <<1, 0, 0, 255>>

(* C4: a TERMINAL-TYPE or NEW-ENVIRON subnegotiation whose first payload     *)
(* byte is SEND emits exactly one subnegotiation for the same option, with  *)
(* payload IS "XTERM" for TERMINAL-TYPE and IS alone for NEW-ENVIRON, in    *)
(* every state of an open terminal, and changes no field.                   *)
C4_SendIsAnswered ==
    (last.op = "sub" /\ Len(last.buffer) > 0 /\ last.buffer[1] = 1)
       => /\ (last.option = TERMINAL_TYPE
                => sent = <<[kind |-> "SUB", option |-> 24,
                             buffer |-> <<0, 88, 84, 69, 82, 77>>, data |-> <<>>]>>)
          /\ (last.option = NEW_ENVIRON
                => sent = <<[kind |-> "SUB", option |-> 39,
                             buffer |-> <<0>>, data |-> <<>>]>>)
          /\ error = NoError
          /\ FieldsUnchanged

\* TERMINAL-TYPE SEND received, answered with one block.
C4_Witness ==
    /\ last.op = "sub" /\ last.option = TERMINAL_TYPE /\ last.buffer = <<SEND>>
    /\ Len(sent) = 1 /\ sent[1].kind = "SUB" /\ sent[1].option = TERMINAL_TYPE

(* C5: WONT <opt> emits exactly one command: DO ECHO when opt is ECHO, and   *)
(* DONT <opt> for every other option; no field of the terminal records an   *)
(* option as enabled because of it (the fields are unchanged).              *)
C5_WontReply ==
    last.op = "wont"
       => /\ Len(sent) = 1
          /\ sent[1].option = last.option
          /\ sent[1].kind = (IF last.option = 1 THEN "DO" ELSE "DONT")
          /\ error = NoError
          /\ FieldsUnchanged

\* WONT ECHO received and answered with DO ECHO.
C5_Witness ==
    /\ last.op = "wont" /\ last.option = ECHO
    /\ sent = <<writeDo(ECHO)>>

C7_EverySizeSent ==
    (last.op = "setDimensions" /\ last.preNaws)
       => /\ Len(sent) = 1
          /\ sent[1].kind = "SUB" /\ sent[1].option = NAWS
          /\ sent[1].buffer = WireSize(last.dims)
          /\ error = NoError

C7_SameSizeTwice ==
    (/\ last.op = "setDimensions" /\ last'.op = "setDimensions"
     /\ serverNawsOk /\ last'.dims = last.dims)
       => (Len(sent') = 1 /\ sent' = sent)

C7_NoDuplicateSuppression == [][C7_SameSizeTwice]_vars /\ []C7_EverySizeSent

\* setDimensions with the size already stored, NAWS accepted: one block is sent.
C7_Witness ==
    /\ last.op = "setDimensions" /\ last.preNaws
    /\ last.preDims = last.dims
    /\ Len(sent) = 1 /\ sent[1].kind = "SUB"

(* C8: every DO <opt> for opt in NAWS, TERMINAL-TYPE, NEW-ENVIRON emits      *)
(* exactly one affirmative reply WILL <opt>, also when NAWS was accepted    *)
(* before, and every WILL <opt> for opt in ECHO, SUPPRESS-GO-AHEAD emits    *)
(* exactly DO <opt>.                                                        *)
C8_ListedRequestsAffirmed ==
    /\ (last.op = "do" /\ last.option \in {NAWS, TERMINAL_TYPE, NEW_ENVIRON})
          => Commands(sent) = <<writeWill(last.option)>>
    /\ (last.op = "will" /\ last.option \in {ECHO, SUPPRESS_GO_AHEAD})
          => Commands(sent) = <<writeDo(last.option)>>

(* C9: every DONT <opt> is acknowledged with exactly one WONT <opt>, for    *)
(* every option, NAWS included, also when the option is already disabled.   *)
C9_EveryDontAcknowledged ==
    last.op = "dont" => sent = <<writeWont(last.option)>>

(* C10, as stated: DONT NAWS sets the NAWS-accepted flag to false and sends  *)
(* nothing at all.                                                          *)
C10_DontNawsSilent ==
    (last.op = "dont" /\ last.option = NAWS)
       => (~serverNawsOk /\ sent = <<>>)

(* C10, amended: DONT NAWS sets the NAWS-accepted flag to false and emits   *)
(* no subnegotiation; it emits at most one command, WONT NAWS, and emits    *)
(* exactly that when NAWS was accepted before; the stored size is kept.     *)
C10_DontNawsStopsUpdates ==
    (last.op = "dont" /\ last.option = NAWS)
       => /\ ~serverNawsOk
          /\ (sent = <<>> \/ sent = <<writeWont(NAWS)>>)
          /\ (last.preNaws => sent = <<writeWont(NAWS)>>)
          /\ error = NoError
          /\ dimensions = last.preDims

\* DONT NAWS received while NAWS was accepted.
C10_Witness ==
    /\ last.op = "dont" /\ last.option = NAWS /\ last.preNaws
    /\ ~serverNawsOk
    /\ sent = <<writeWont(NAWS)>>

-----------------------------------------------------------------------------
\* The four offers open() writes, in order.
Offers ==
    <<[kind |-> "DO", option |-> 1, buffer |-> <<>>, data |-> <<>>],
      [kind |-> "DO", option |-> 3, buffer |-> <<>>, data |-> <<>>],
      [kind |-> "WILL", option |-> 3, buffer |-> <<>>, data |-> <<>>],
      [kind |-> "WILL", option |-> 31, buffer |-> <<>>, data |-> <<>>]>>

(* C11: over every sequence of operations the client never emits WILL <opt>  *)
(* for an option outside NAWS, TERMINAL-TYPE, NEW-ENVIRON, SUPPRESS-GO-AHEAD *)
(* and never emits DO <opt> for an option outside ECHO, SUPPRESS-GO-AHEAD.   *)
C11_NoUnsupportedAffirmative ==
    \A i \in 1..Len(sent) :
        /\ sent[i].kind = "WILL" => sent[i].option \in {31, 24, 39, 3}
        /\ sent[i].kind = "DO" => sent[i].option \in {1, 3}

\* The peer offers WILL NAWS, which the client does not request: it is refused.
C11_Witness ==
    /\ last.op = "will" /\ last.option = NAWS
    /\ Len(sent) = 1 /\ sent[1].kind = "DONT" /\ sent[1].option = NAWS

(* C12: open() emits exactly DO ECHO, DO SUPPRESS-GO-AHEAD,                  *)
(* WILL SUPPRESS-GO-AHEAD, WILL NAWS in this order, no NAWS subnegotiation   *)
(* even when initial dimensions are given, and leaves NAWS not accepted.     *)
C12_OpenOffers ==
    last.op = "open"
       => /\ sent = Offers
          /\ error = NoError
          /\ ~serverNawsOk

(* C14: handleInput before open() raises "Terminal not ready", sends         *)
(* nothing and leaves the stored size and the NAWS-accepted flag unchanged.  *)
C14_InputBeforeOpenThrows ==
    (last.op = "handleInput" /\ last.preSocket = "none")
       => /\ error = "Terminal not ready"
          /\ sent = <<>>
          /\ socket = "none"
          /\ FieldsUnchanged

\* handleInput("\r") on a terminal that was never opened.
C14_Witness ==
    /\ last.op = "handleInput" /\ last.preSocket = "none"
    /\ last.data = <<"CR">>
    /\ error = NotReady /\ sent = <<>>

(* C16: close() completes without raising an error in every state of the    *)
(* terminal after construction, before open() included.                     *)
C16_CloseNeverThrows ==
    last.op = "close" => error = NoError

(* C17: a NAWS subnegotiation is emitted only when NAWS is accepted and a    *)
(* size is known; setDimensions while NAWS is not accepted stores the size  *)
(* and sends nothing; a DO NAWS with no known size emits WILL NAWS only.    *)
C17_SizeOnlyWhenAccepted ==
    /\ \A i \in 1..Len(sent) :
          (sent[i].kind = "SUB" /\ sent[i].option = NAWS)
             => (serverNawsOk /\ dimensions.defined)
    /\ (last.op = "setDimensions" /\ ~last.preNaws)
          => (sent = <<>> /\ dimensions = last.dims)
    /\ (last.op = "do" /\ last.option = NAWS) => serverNawsOk
    /\ (last.op = "dont" /\ last.option = NAWS) => ~serverNawsOk
    /\ (last.op = "do" /\ last.option = NAWS /\ ~dimensions.defined)
          => sent = <<writeWill(NAWS)>>

(* C18: a received subnegotiation is ignored (no output, no error, no field  *)
(* changed) when its option is neither TERMINAL-TYPE nor NEW-ENVIRON, or    *)
(* its payload is empty, or its first payload byte is not SEND.             *)
C18_OtherSubnegotiationsIgnored ==
    (/\ last.op = "sub"
     /\ \/ last.option \notin {24, 39}
        \/ Len(last.buffer) = 0
        \/ last.buffer[1] # 1)
       => /\ sent = <<>>
          /\ error = NoError
          /\ socket = "open"
          /\ FieldsUnchanged

\* TERMINAL-TYPE subnegotiation whose first byte is IS, not SEND: no reply.
C18_Witness ==
    /\ last.op = "sub" /\ last.option = TERMINAL_TYPE
    /\ last.buffer = <<IS, SEND>>
    /\ sent = <<>>

(* C19: whenever open() starts a connection, also on a terminal that was    *)
(* opened and closed before with NAWS accepted, NAWS is not accepted at the *)
(* start of the new connection.                                             *)
C19_OpenStartsUnaccepted ==
    last.op = "open" => ~serverNawsOk

(* C20: the NAWS-accepted flag changes only when DO NAWS or DONT NAWS is     *)
(* received, and the stored size changes only by open() and setDimensions.  *)
C20_FrameStep ==
    /\ serverNawsOk' # serverNawsOk
          => (last'.op \in {"do", "dont"} /\ last'.option = 31)
    /\ dimensions' # dimensions
          => last'.op \in {"open", "setDimensions"}

C20_Frame == [][C20_FrameStep]_vars

\* DO NAWS with no size stored turns the flag on and leaves the size unset.
C20_Witness ==
    /\ last.op = "do" /\ last.option = NAWS /\ ~last.preNaws
    /\ serverNawsOk
    /\ dimensions = Undefined /\ last.preDims = Undefined

-----------------------------------------------------------------------------
(* The exchange with a peer.  The commands the client writes travel to the  *)
(* peer in order, the peer answers every negotiation command it receives   *)
(* with exactly one reply chosen by a fixed policy, and the replies are    *)
(* delivered to the client's handlers in order.                             *)

\* The policies: the options the peer agrees to enable itself when asked
\* with DO, and the options it agrees the client enables when told with WILL.
PeerWillSets == SUBSET {ECHO, SUPPRESS_GO_AHEAD}
PeerDoSets == SUBSET {SUPPRESS_GO_AHEAD, NAWS}

IsCommand(m) == m.kind \in {"DO", "DONT", "WILL", "WONT"}

\* The peer's one reply to a negotiation command.
peerReply(m, w) ==
    CASE m.kind = "DO" ->
            IF m.option \in w.peerWill THEN writeWill(m.option) ELSE writeWont(m.option)
      [] m.kind = "WILL" ->
            IF m.option \in w.peerDo THEN writeDo(m.option) ELSE writeDont(m.option)
      [] m.kind = "DONT" -> writeWont(m.option)
      [] m.kind = "WONT" -> writeDont(m.option)

\* The handler the socket event of a received command runs.
dispatch(m, naws, dims) ==
    CASE m.kind = "DO" -> handleDo(m.option, naws, dims)
      [] m.kind = "DONT" -> handleDont(m.option, naws, dims)
      [] m.kind = "WILL" ->
            [naws |-> naws, sent |-> handleWill(m.option), error |-> NoError]
      [] m.kind = "WONT" ->
            [naws |-> naws, sent |-> handleWont(m.option), error |-> NoError]

EventName(kind) ==
    CASE kind = "DO" -> "do"
      [] kind = "DONT" -> "dont"
      [] kind = "WILL" -> "will"
      [] kind = "WONT" -> "wont"

LoopInit ==
    /\ socket = "none"
    /\ dimensions = Undefined
    /\ serverNawsOk = FALSE
    /\ sent = <<>>
    /\ error = NoError
    /\ last = [op |-> "new", option |-> -1, buffer |-> <<>>, data |-> <<>>,
               dims |-> Undefined, preSocket |-> "none", preDims |-> Undefined,
               preNaws |-> FALSE]
    /\ \E pw \in PeerWillSets, pd \in PeerDoSets :
          wire = [toPeer |-> <<>>, toClient |-> <<>>, peerWill |-> pw, peerDo |-> pd]
    /\ codec = CodecIdle

\* open(): the four offers go out to the peer.
LoopOpen ==
    \E d \in Sizes \cup {Undefined} :
        /\ socket = "none"
        /\ socket' = "open"
        /\ dimensions' = d
        /\ sent' = <<writeDo(ECHO), writeDo(SUPPRESS_GO_AHEAD),
                     writeWill(SUPPRESS_GO_AHEAD), writeWill(NAWS)>>
        /\ error' = NoError
        /\ last' = Op("open", -1, <<>>, <<>>, d)
        /\ wire' = [wire EXCEPT !.toPeer = sent']
        /\ UNCHANGED <<serverNawsOk, codec>>

\* The peer takes the next item the client wrote and answers it if it is a
\* negotiation command (a subnegotiation gets no answer).
PeerStep ==
    /\ wire.toPeer # <<>>
    /\ LET m == Head(wire.toPeer)
       IN  wire' = [wire EXCEPT
                      !.toPeer = Tail(wire.toPeer),
                      !.toClient = IF IsCommand(m)
                                   THEN Append(wire.toClient, peerReply(m, wire))
                                   ELSE wire.toClient]
    /\ UNCHANGED <<socket, dimensions, serverNawsOk, sent, error, last, codec>>

\* The client's handler runs on the next reply; what it writes goes out.
ClientStep ==
    /\ socket = "open"
    /\ wire.toClient # <<>>
    /\ LET m == Head(wire.toClient)
           r == dispatch(m, serverNawsOk, dimensions)
       IN  /\ serverNawsOk' = r.naws
           /\ sent' = r.sent
           /\ error' = r.error
           /\ last' = Op(EventName(m.kind), m.option, <<>>, <<>>, Undefined)
           /\ wire' = [wire EXCEPT !.toClient = Tail(wire.toClient),
                                   !.toPeer = wire.toPeer \o r.sent]
    /\ UNCHANGED <<socket, dimensions, codec>>

LoopNext ==
    \/ LoopOpen
    \/ PeerStep
    \/ ClientStep

\* Every event the socket raises is delivered and the peer answers every
\* command, so each of the three steps is taken when it stays possible.
LoopSpec ==
    /\ LoopInit
    /\ [][LoopNext]_vars
    /\ WF_vars(LoopOpen)
    /\ WF_vars(PeerStep)
    /\ WF_vars(ClientStep)

\* The terminal is open and no command is in flight in either direction.
Quiet == socket = "open" /\ wire.toPeer = <<>> /\ wire.toClient = <<>>

(* C13: after open(), against a peer that answers every negotiation command *)
(* with one reply chosen by a fixed policy, the exchange eventually reaches *)
(* a state where no further command is in flight.                           *)
C13_EventuallyQuiet == <>Quiet

-----------------------------------------------------------------------------
(* The byte stream codec (section 4.1 of the specification; the class gets  *)
(* it from the TelnetSocket it creates in open()).  One data byte sequence  *)
(* is encoded for the wire and the encoded bytes are decoded again, fed to  *)
(* the decoder in chunks of any sizes.                                      *)

IAC == 255
DONT == 254
DO == 253
WONT == 252
WILL == 251
SB == 250
SE == 240

MaxDataLen == 3   \* longest data byte sequence encoded

\* Data bytes: the escape byte, bytes that are commands after IAC, a letter.
DataBytes == {IAC, DO, SB, SE, 65}

\* Mutant of encode: a 0xFF data byte is written as it is.
RECURSIVE encode_NoEscape(_)
encode_NoEscape(bytes) ==
    IF bytes = <<>> THEN <<>> ELSE <<Head(bytes)>> \o encode_NoEscape(Tail(bytes))

\* Outgoing data: every 0xFF is doubled to IAC IAC.
RECURSIVE encode(_)
encode(bytes) ==
    IF bytes = <<>> THEN <<>>
    ELSE (IF Head(bytes) = IAC THEN <<IAC, IAC>> ELSE <<Head(bytes)>>)
         \o encode(Tail(bytes))

\* The buffered plain data is handed over as one data event.
flush(c) ==
    IF c.chunk = <<>> THEN c
    ELSE [c EXCEPT !.data = c.data \o c.chunk, !.chunk = <<>>,
                   !.dataEvents = c.dataEvents + 1]

\* A command, negotiation or subnegotiation event (or a decode fault) is
\* raised, after the data received before it.
emitOther(c) == [flush(c) EXCEPT !.otherEvents = @ + 1, !.state = "normal",
                                 !.pending = <<>>]

\* Mutant of decodeByte: IAC IAC ends the escape without a data byte.
decodeByte_DropsEscaped(c, b) ==
    CASE c.state = "normal" ->
            IF b = IAC THEN [c EXCEPT !.state = "iac"]
            ELSE [c EXCEPT !.chunk = Append(c.chunk, b)]
      [] c.state = "iac" ->
            IF b = IAC THEN [c EXCEPT !.state = "normal"]
            ELSE IF b \in {DO, DONT, WILL, WONT} THEN [c EXCEPT !.state = "command"]
            ELSE IF b = SB THEN [c EXCEPT !.state = "sb"]
            ELSE emitOther(c)
      [] c.state = "command" -> emitOther(c)
      [] c.state = "sb" -> [c EXCEPT !.state = "sub", !.pending = <<>>]
      [] c.state = "sub" ->
            IF b = IAC THEN [c EXCEPT !.state = "subiac"]
            ELSE [c EXCEPT !.pending = Append(c.pending, b)]
      [] c.state = "subiac" ->
            IF b = IAC THEN [c EXCEPT !.state = "sub", !.pending = Append(c.pending, IAC)]
            ELSE emitOther(c)

\* The decoder's state machine on one byte: normal, seen-IAC ("iac"),
\* seen-command-needing-option ("command"), the option byte after SB ("sb"),
\* in-subnegotiation ("sub"), in-subnegotiation-seen-IAC ("subiac").
decodeByte(c, b) ==
    CASE c.state = "normal" ->
            IF b = IAC THEN [c EXCEPT !.state = "iac"]
            ELSE [c EXCEPT !.chunk = Append(c.chunk, b)]
      [] c.state = "iac" ->
            IF b = IAC THEN [c EXCEPT !.state = "normal", !.chunk = Append(c.chunk, IAC)]
            ELSE IF b \in {DO, DONT, WILL, WONT} THEN [c EXCEPT !.state = "command"]
            ELSE IF b = SB THEN [c EXCEPT !.state = "sb"]
            ELSE emitOther(c)
      [] c.state = "command" -> emitOther(c)
      [] c.state = "sb" -> [c EXCEPT !.state = "sub", !.pending = <<>>]
      [] c.state = "sub" ->
            IF b = IAC THEN [c EXCEPT !.state = "subiac"]
            ELSE [c EXCEPT !.pending = Append(c.pending, b)]
      [] c.state = "subiac" ->
            IF b = IAC THEN [c EXCEPT !.state = "sub", !.pending = Append(c.pending, IAC)]
            ELSE emitOther(c)

\* One chunk: its bytes in arrival order, then the buffered data flushed.
RECURSIVE decodeBytes(_, _)
decodeBytes(c, bytes) ==
    IF bytes = <<>> THEN c ELSE decodeBytes(decodeByte(c, Head(bytes)), Tail(bytes))

decodeChunk(c, bytes) == flush(decodeBytes(c, bytes))

CodecInit ==
    /\ socket = "none"
    /\ dimensions = Undefined
    /\ serverNawsOk = FALSE
    /\ sent = <<>>
    /\ error = NoError
    /\ last = [op |-> "new", option |-> -1, buffer |-> <<>>, data |-> <<>>,
               dims |-> Undefined, preSocket |-> "none", preDims |-> Undefined,
               preNaws |-> FALSE]
    /\ wire = WireIdle
    /\ \E d \in SeqsUpTo(DataBytes, MaxDataLen) :
          codec = [CodecIdle EXCEPT !.orig = d, !.rest = encode(d)]

\* The next chunk of the encoded bytes arrives: any non-empty prefix of what
\* is left.
Feed ==
    \E k \in 1..Len(codec.rest) :
        /\ codec' = [decodeChunk(codec, SubSeq(codec.rest, 1, k)) EXCEPT
                        !.rest = SubSeq(codec.rest, k + 1, Len(codec.rest)),
                        !.chunks = codec.chunks + 1]
        /\ UNCHANGED <<socket, dimensions, serverNawsOk, sent, error, last, wire>>

CodecNext == Feed

CodecSpec == CodecInit /\ [][CodecNext]_vars

(* C15: a data byte sequence, encoded (each 0xFF doubled) and decoded again  *)
(* under any split of the encoded bytes into chunks, yields data events     *)
(* whose concatenation is the original sequence and no command,             *)
(* negotiation or subnegotiation event.                                     *)
C15_EscapingRoundTrip ==
    /\ codec.otherEvents = 0
    /\ Len(codec.data) <= Len(codec.orig)
    /\ codec.data = SubSeq(codec.orig, 1, Len(codec.data))
    /\ codec.rest = <<>>
          => (codec.data = codec.orig /\ codec.state = "normal" /\ codec.chunk = <<>>)

\* 'A' 0xFF was encoded as 65 255 255 and arrived one byte per chunk, the
\* two IAC bytes in different chunks.
C15_Witness ==
    /\ codec.orig = <<65, 255>>
    /\ codec.rest = <<>>
    /\ codec.chunks = 3
    /\ codec.data = <<65, 255>>

=============================================================================
